---- MODULE Spec2Model ----
(***************************************************************************)
(* A model of olpc.datastore.xapianindex.IndexManager: the write and the   *)
(* read connection onto one index, the write lock, the work queue with its *)
(* background indexer thread, and the caller operations index, delete,     *)
(* tag, complete_indexing and enqueSequence, split at the points where the *)
(* code takes the lock, reads the read connection or touches the queue.    *)
(***************************************************************************)
EXTENDS Integers, Sequences, FiniteSets, TLC

\* ---------------------------------------------------------------- bounds

\* how many caller operations one behaviour starts
MaxCalls == 3
\* the same where callers index properties only, tag and drain
MaxTagCalls == 5
\* how many identities create_uid hands out
MaxIds == 3

\* ------------------------------------------------------ program constants

CREATE == 1
UPDATE == 2
DELETE == 3
ADD == 1
REMOVE == 2
\* fp.read(2048) in indexThread
ChunkSize == 2048

\* ----------------------------------------------------------- input domains

Callers == {"c1", "c2"}
\* 0 stands for None where the code holds a uid, a vid or a rev
None == 0
\* no filename, no filestuff
NoFile == "nofile"
\* the vid a caller supplies on a versioned store: none (stored as '1') or 2
VidInputs == {None, 2}
\* the rev a caller of tag() supplies
Revs == {None, 1}
\* three paths: two hold text the converter turns into a stream, the third a
\* binary the converter gives up on
Files == {"fa", "fb", "fx"}
\* the tag expressions callers use, each a list of whitespace-separated
\* tokens, a token written as its pieces: "alpha beta", "-alpha", "-",
\* "alpha", "Beta:0"
AlphaBeta == << <<"alpha">>, <<"beta">> >>
MinusAlpha == << <<"-", "alpha">> >>
Minus == << <<"-">> >>
Alpha == << <<"alpha">> >>
Beta0 == << <<"Beta", ":0">> >>
TagExprs == {AlphaBeta, MinusAlpha, Minus, Alpha, Beta0}

AllCaps == {"versions", "inplace"}
\* the capability sets of the stores that bind; a manager no store is bound
\* to behaves as one whose store has no capability
CapSets == {{"versions"}, {"versions", "inplace"}}

\* the length of the plain text the converter yields for a path (0: none)
TextLen(f) ==
    CASE f = "fa" -> 5000
      [] f = "fb" -> 2048
      [] OTHER -> 0

\* converter(filename, mimetype): a stream (the text's length) or a failure
\* (0) when the file is gone or does not convert
converter(f, on_disk) ==
    IF f \in on_disk /\ TextLen(f) > 0 THEN TextLen(f) ELSE 0

Min(a, b) == IF a < b THEN a ELSE b

\* the chunks fp.read(ChunkSize) yields from offset off until it returns ""
RECURSIVE ReadChunks(_, _, _)
ReadChunks(f, len, off) ==
    LET n == Min(ChunkSize, len - off)
    IN  IF n <= 0 THEN <<>>
        ELSE <<[file |-> f, off |-> off, len |-> n]>> \o ReadChunks(f, len, off + n)

\* ----------------------------------------------------------------- state

VARIABLES
    state,            \* "disconnected", "connected"
    write_index,      \* the documents of the write connection (pending included)
    read_index,       \* the documents the read connection sees (last reopen)
    queue,            \* self.queue: the elements not yet taken
    unfinished,       \* Queue.unfinished_tasks: put minus task_done
    write_lock,       \* holder of self._write_lock, or "free"
    indexer_running,  \* self.indexer_running
    wpc,              \* the indexer thread's position
    wdata,            \* the element the indexer thread is working on
    wcaps,            \* versions/inplace as read when the thread started
    backingstore,     \* capabilities of the bound store, {"unbound"} before bind_to
    fields,           \* self.fields
    on_disk,          \* the files that exist
    next_uid,         \* the next identity create_uid returns
    calls,            \* caller operations started so far
    touched,          \* the identities a delete, a tag, an update of an
                      \* existing uid or a grouped command was called with
    last,             \* per caller: the uid its last returned operation
                      \* tagged "alpha beta" from no tags and no pending
                      \* work, None after any other operation
    partial,          \* the identities of the documents a batch removed
                      \* before it was abandoned, and that no caller
                      \* operation was or has since been called with
    latest,           \* per document identity, the title of the latest
                      \* index() call for it, None when a delete() came
                      \* after it; dropped by a sequence of commands on it
    pc,               \* each caller's position
    loc               \* each caller's local variables

vars == <<state, write_index, read_index, queue, unfinished, write_lock,
          indexer_running, wpc, wdata, wcaps, backingstore, fields, on_disk,
          next_uid, calls, touched, last, partial, latest, pc, loc>>

\* ------------------------------------------------------------- documents

\* secore.UnprocessedDocument as index() fills it: the identity, the uid and
\* vid fields, the other registered properties, the fulltext fields the
\* indexer appends, and data['tags']
MkDoc(id, uid, vid, props) ==
    [id |-> id, uid |-> uid, vid |-> vid, props |-> props,
     fulltext |-> <<>>, tags |-> {}]

NoDoc == MkDoc(None, None, None, {})

\* IndexerConnection.delete(id)
EngineDelete(idx, id) == {d \in idx : d.id # id}

\* IndexerConnection.replace(doc): the document of that identity is replaced,
\* and added when there is none
EngineReplace(idx, doc) == EngineDelete(idx, doc.id) \cup {doc}

\* IndexerConnection.add(doc)
EngineAdd(idx, doc) == EngineReplace(idx, doc)

\* SearchConnection.get_document(id): the set holding the document, or {}
EngineGet(idx, id) == {d \in idx : d.id = id}

\* ----------------------------------------------------------------- lock

\* a with block that never waits
LockIgnored == TRUE

\* threading.Lock: the with statement goes on once nobody holds the lock
LockFree == write_lock = "free"

\* IndexManager.versions / IndexManager.inplace
versions == "versions" \in backingstore
inplace == "inplace" \in backingstore

\* ------------------------------------------------------------------ init

Idle == [op |-> "none"]


InitManager ==
    /\ state = "disconnected"
    /\ write_index = {}
    /\ read_index = {}
    /\ queue = <<>>
    /\ unfinished = 0
    /\ write_lock = "free"
    /\ indexer_running = FALSE
    /\ wpc = "off"
    /\ wdata = <<>>
    /\ wcaps = {}
    /\ backingstore = {"unbound"}
    /\ fields = {"uid", "vid", "title"}
    /\ on_disk = Files
    /\ next_uid = 1
    /\ calls = 0
    /\ touched = {}
    /\ latest = {}
    /\ last = [t \in Callers |-> None]
    /\ partial = {}
    /\ loc = [t \in Callers |-> Idle]

\* two callers and the indexer thread
Init == InitManager /\ pc = [t \in Callers |-> "idle"]

\* one caller and the indexer thread
InitSeq == InitManager /\ pc = [t \in Callers |-> IF t = "c1" THEN "idle" ELSE "absent"]

\* ------------------------------------------------------- connect, bind_to

\* connect(): both connections bound, the schema applied, flush(), and the
\* indexer thread started
Connect ==
    /\ state = "disconnected"
    /\ state' = "connected"
    /\ read_index' = write_index
    /\ indexer_running' = TRUE
    /\ wpc' = "start"
    /\ UNCHANGED <<write_index, queue, unfinished, write_lock, wdata, wcaps,
                   backingstore, fields, on_disk, next_uid, calls, touched, last, partial, pc, loc, latest>>

\* bind_to(backingstore): the store binds itself before it hands content over
BindTo(caps) ==
    /\ backingstore = {"unbound"}
    /\ calls = 0
    /\ backingstore' = caps
    /\ UNCHANGED <<state, write_index, read_index, queue, unfinished, write_lock,
                   indexer_running, wpc, wdata, wcaps, fields, on_disk, next_uid,
                   calls, touched, last, partial, pc, loc, latest>>

\* a caller starts an operation on a connected manager whose indexer thread
\* has read its settings. Caller threads are interchangeable: c2 is the one
\* that starts an operation while c1 is inside one
CanCall(t) ==
    /\ pc[t] = "idle"
    /\ wpc # "start"
    /\ t = "c2" => pc["c1"] # "idle"
    /\ state = "connected"

\* ----------------------------------------------------------------- index

\* an index() that always takes the uid as the document's identity
UidAsId(uid) == uid

\* index(): doc.id = create_uid() on a store with versions, else doc.id = uid
doc_id(uid) == IF versions THEN next_uid + (IF uid = next_uid THEN 1 ELSE 0) ELSE uid

\* index(props, filename) up to the call of enque: uid and operation, the
\* document identity, vid, _mapProperties and the document's fields. Every
\* call supplies a title no call before it supplied (the call's number)
IndexCall(t, uidIn, vidIn, note, filename) ==
    LET title == calls + 1
        fresh == IF uidIn = None THEN 1 ELSE 0
        uid == IF uidIn = None THEN next_uid ELSE uidIn
        operation == IF uidIn = None THEN CREATE ELSE UPDATE
        id == doc_id(uid)
        used == fresh + (IF versions THEN 1 ELSE 0)
        vid0 == IF versions THEN vidIn ELSE None
        vid == IF vid0 = None THEN 1 ELSE vid0
        props == {<<"title", title>>} \cup (IF note THEN {<<"note", title>>} ELSE {})
        added == {p[1] : p \in props} \ fields
        kept == {p \in props : p[1] \in fields \cup added}
        filestuff == filename
    IN  /\ CanCall(t)
        /\ next_uid + used - 1 <= MaxIds
        /\ next_uid' = next_uid + used
        /\ fields' = fields \cup added
        /\ calls' = calls + 1
        /\ touched' = IF id = uidIn THEN touched \cup {id} ELSE touched
        /\ loc' = [loc EXCEPT ![t] = [op |-> "index", uid |-> uid, vid |-> vid,
                                      doc |-> MkDoc(id, uid, vid, kept),
                                      operation |-> operation,
                                      filestuff |-> filestuff]]
        /\ partial' = partial \ {id}
        /\ pc' = [pc EXCEPT ![t] = IF added # {} THEN "map_lock" ELSE "enq_lock"]
        /\ latest' = {p \in latest : p[1] # id} \cup {<<id, title>>}
        /\ UNCHANGED <<state, write_index, read_index, queue, unfinished, write_lock,
                       indexer_running, wpc, wdata, wcaps, backingstore, on_disk,
                       last>>

\* _mapProperties: with self._write_lock
SchemaLock(t) ==
    /\ pc[t] = "map_lock"
    /\ LockFree
    /\ write_lock' = t
    /\ pc' = [pc EXCEPT ![t] = "map_apply"]
    /\ UNCHANGED <<state, write_index, read_index, queue, unfinished,
                   indexer_running, wpc, wdata, wcaps, backingstore, fields, on_disk,
                   next_uid, calls, touched, last, partial, loc, latest>>

\* _mapProperties: self.datamodel.apply(self), then the lock is released
SchemaApply(t) ==
    /\ pc[t] = "map_apply"
    /\ fields' = fields \cup {"uid", "vid", "title"}
    /\ write_lock' = "free"
    /\ pc' = [pc EXCEPT ![t] = "enq_lock"]
    /\ UNCHANGED <<state, write_index, read_index, queue, unfinished,
                   indexer_running, wpc, wdata, wcaps, backingstore, on_disk,
                   next_uid, calls, touched, last, partial, loc, latest>>

\* ----------------------------------------------------------------- enque

\* enque: with self._write_lock (CREATE/UPDATE and DELETE alike)
EnqueLock(t) ==
    /\ pc[t] = "enq_lock"
    /\ LockFree
    /\ write_lock' = t
    /\ pc' = [pc EXCEPT ![t] = "enq_write"]
    /\ UNCHANGED <<state, write_index, read_index, queue, unfinished,
                   indexer_running, wpc, wdata, wcaps, backingstore, fields, on_disk,
                   next_uid, calls, touched, last, partial, loc, latest>>

\* what enque writes under the lock
EnqueApply(idx, l) ==
    CASE l.operation = CREATE -> EngineAdd(idx, l.doc)
      [] l.operation = UPDATE -> EngineReplace(idx, l.doc)
      [] l.operation = DELETE -> EngineDelete(idx, l.uid)
      [] OTHER -> idx

\* enque: add, replace or delete on the write connection; the with block ends
EnqueWrite(t) ==
    /\ pc[t] = "enq_write"
    /\ write_index' = EnqueApply(write_index, loc[t])
    /\ write_lock' = "free"
    /\ pc' = [pc EXCEPT ![t] = "flush_lock"]
    /\ UNCHANGED <<state, read_index, queue, unfinished, indexer_running, wpc,
                   wdata, wcaps, backingstore, fields, on_disk, next_uid, calls, touched, last, partial, loc, latest>>

\* ----------------------------------------------------------------- flush

\* flush(): with self._write_lock
FlushLock(t) ==
    /\ pc[t] = "flush_lock"
    /\ LockFree
    /\ write_lock' = t
    /\ pc' = [pc EXCEPT ![t] = "flush_commit"]
    /\ UNCHANGED <<state, write_index, read_index, queue, unfinished,
                   indexer_running, wpc, wdata, wcaps, backingstore, fields, on_disk,
                   next_uid, calls, touched, last, partial, loc, latest>>

\* where the caller goes on once its flush() has returned: enque puts the
\* item on the queue when there is filestuff, every other path returns
AfterFlush(l) ==
    IF l.op = "index" /\ l.filestuff # NoFile THEN "put" ELSE "ret"

\* flush(): write_index.flush(), read_index.reopen(), and the lock released
FlushCommit(t) ==
    /\ pc[t] = "flush_commit"
    /\ read_index' = write_index
    /\ write_lock' = "free"
    /\ pc' = [pc EXCEPT ![t] = AfterFlush(loc[t])]
    /\ UNCHANGED <<state, write_index, queue, unfinished, indexer_running, wpc,
                   wdata, wcaps, backingstore, fields, on_disk, next_uid, calls, touched, last, partial, loc, latest>>

\* the work item enque queues: the operation is UPDATE by now
QueuedItem(l) ==
    [uid |-> l.uid, vid |-> l.vid, doc |-> l.doc, operation |-> UPDATE,
     filestuff |-> l.filestuff]

\* enque: self.queue.put((uid, vid, doc, operation, filestuff))
QueuePut(t) ==
    /\ pc[t] = "put"
    /\ queue' = Append(queue, [seq |-> FALSE, items |-> <<QueuedItem(loc[t])>>])
    /\ unfinished' = unfinished + 1
    /\ pc' = [pc EXCEPT ![t] = "ret"]
    /\ UNCHANGED <<state, write_index, read_index, write_lock, indexer_running,
                   wpc, wdata, wcaps, backingstore, fields, on_disk, next_uid,
                   calls, touched, last, partial, loc, latest>>

\* the operation returns to its caller ("ret": its work is done, its locals
\* not yet dropped)
Return(t) ==
    /\ pc[t] = "ret"
    /\ pc' = [pc EXCEPT ![t] = "idle"]
    /\ loc' = [loc EXCEPT ![t] = Idle]
    /\ last' = [last EXCEPT ![t] = IF loc[t].op = "tag" /\ loc[t].clean
                                        /\ loc[t].expr = AlphaBeta
                                     THEN loc[t].uid ELSE None]
    /\ UNCHANGED <<state, write_index, read_index, queue, unfinished, write_lock,
                   indexer_running, wpc, wdata, wcaps, backingstore, fields, on_disk,
                   next_uid, calls, touched, partial, latest>>

\* ---------------------------------------------------------------- delete

\* delete(uid): enque(uid, None, None, DELETE)
DeleteCall(t, uid) ==
    /\ CanCall(t)
    /\ calls' = calls + 1
    /\ touched' = touched \cup {uid}
    /\ loc' = [loc EXCEPT ![t] = [op |-> "delete", uid |-> uid, vid |-> None,
                                  doc |-> NoDoc, operation |-> DELETE,
                                  filestuff |-> NoFile]]
    /\ partial' = partial \ {uid}
    /\ pc' = [pc EXCEPT ![t] = "enq_lock"]
    /\ latest' = {p \in latest : p[1] # uid} \cup {<<uid, None>>}
    /\ UNCHANGED <<state, write_index, read_index, queue, unfinished, write_lock,
                   indexer_running, wpc, wdata, wcaps, backingstore, fields, on_disk,
                   next_uid, last>>

\* ------------------------------------------------------------------- tag

\* str.lower() on the words a tag expression is written with
Lower(w) ==
    CASE w = "Beta" -> "beta"
      [] OTHER -> w

\* the text of a token's pieces ("" for none)
Word(tok) == IF tok = <<>> THEN "" ELSE Lower(Head(tok))

\* _parse_tags, one token: a leading "-" means REMOVE, a trailing ":0" is cut
ParseTag(tok) ==
    LET neg == tok # <<>> /\ Head(tok) = "-"
        t1 == IF neg THEN Tail(tok) ELSE tok
        t2 == IF t1 # <<>> /\ t1[Len(t1)] = ":0" THEN SubSeq(t1, 1, Len(t1) - 1) ELSE t1
    IN  [tag |-> Word(t2), mode |-> IF neg THEN REMOVE ELSE ADD]

\* _parse_tags
parse_tags(expr) == [i \in 1..Len(expr) |-> ParseTag(expr[i])]

\* tag() without its special case for "-": every token is looked up and then
\* removed or added
TagEditNoClear(existing, p) ==
    IF p.tag \in existing /\ p.mode = REMOVE THEN existing \ {p.tag}
    ELSE existing \cup {p.tag}

\* tag(): what one parsed token does to one document's tag set
TagEdit(existing, p) ==
    IF p.tag = "" /\ p.mode = REMOVE THEN {}
    ELSE IF p.tag \in existing /\ p.mode = REMOVE THEN existing \ {p.tag}
    ELSE existing \cup {p.tag}

\* tag(): the tokens applied in order to one document's tag set
RECURSIVE TagEdits(_, _)
TagEdits(existing, parsed) ==
    IF parsed = <<>> THEN existing
    ELSE TagEdits(TagEdit(existing, Head(parsed)), Tail(parsed))

\* the work items put on the queue and not yet done
Pending ==
    UNION {{queue[i].items[k] : k \in 1..Len(queue[i].items)} : i \in 1..Len(queue)}
    \cup {wdata[k] : k \in 1..Len(wdata)}

\* get_by_uid_prop(uid, rev): the documents of the read connection with that
\* uid, of that vid when a rev is given
get_by_uid_prop(uid, rev) ==
    {d \in read_index : d.uid = uid /\ (rev = None \/ d.vid = rev)}

\* backingstore.tip(uid): the latest version identifier the store has for
\* the uid, the highest vid that was indexed under it
tip(uid) ==
    LET vids == {d.vid : d \in {x \in write_index : x.uid = uid}}
    IN  IF vids = {} THEN None ELSE CHOOSE v \in vids : \A w \in vids : w <= v

\* get_by_uid_prop(uid, rev="tip"): rev = self.backingstore.tip(uid)
get_by_uid_tip(uid) == get_by_uid_prop(uid, tip(uid))

\* _search(q, 0, 1000, sortby="-vid"): the results in descending vid order
RECURSIVE SortByVidDesc(_)
SortByVidDesc(results) ==
    IF results = {} THEN <<>>
    ELSE LET d == CHOOSE x \in results : \A y \in results : y.vid <= x.vid
         IN  <<d>> \o SortByVidDesc(results \ {d})

\* a tag() that goes on with an empty chain
NeverRaises(results) == FALSE

\* tag(): if count == 0: raise KeyError
NoSuchUid(results) == results = {}

\* tag(uid, tags, rev) up to the lock: the version chain is read from the
\* read connection, KeyError when it is empty, else every document of the
\* chain gets its edited tag set
TagCall(t, uid, expr, rev) ==
    LET results == get_by_uid_prop(uid, rev)
        parsed == parse_tags(expr)
        edited == {[d EXCEPT !.tags = TagEdits(d.tags, parsed)] : d \in results}
        whole == {d \in read_index \cup write_index : d.uid = uid}
    IN  /\ CanCall(t)
        /\ calls' = calls + 1
        /\ touched' = touched \cup {d.id : d \in whole}
        /\ loc' = [loc EXCEPT ![t] = [op |-> "tag", uid |-> uid, expr |-> expr,
                                      rev |-> rev, chain |-> results,
                                      clean |-> /\ results # {}
                                                /\ rev = None
                                                /\ \A d \in whole : d.tags = {}
                                                /\ Pending = {},
                                      results |-> edited,
                                      err |-> IF NoSuchUid(results)
                                              THEN "KeyError" ELSE "none"]]
        /\ pc' = [pc EXCEPT ![t] = IF NoSuchUid(results) THEN "ret" ELSE "tag_lock"]
        /\ UNCHANGED <<state, write_index, read_index, queue, unfinished, write_lock,
                       indexer_running, wpc, wdata, wcaps, backingstore, fields,
                       on_disk, next_uid,
                   last, partial, latest>>

\* tag(): with self._write_lock
TagLock(t) ==
    /\ pc[t] = "tag_lock"
    /\ LockFree
    /\ write_lock' = t
    /\ pc' = [pc EXCEPT ![t] = "tag_write"]
    /\ UNCHANGED <<state, write_index, read_index, queue, unfinished,
                   indexer_running, wpc, wdata, wcaps, backingstore, fields, on_disk,
                   next_uid, calls, touched, last, partial, loc, latest>>

\* replace_document for every document of a set
ReplaceAll(idx, docs) ==
    {d \in idx : \A c \in docs : c.id # d.id} \cup docs

\* tag(): every document of the chain replaced on the write connection, the
\* with block left, and the return
TagWrite(t) ==
    /\ pc[t] = "tag_write"
    /\ write_index' = ReplaceAll(write_index, loc[t].results)
    /\ write_lock' = "free"
    /\ pc' = [pc EXCEPT ![t] = "ret"]
    /\ UNCHANGED <<state, read_index, queue, unfinished, indexer_running, wpc,
                   wdata, wcaps, backingstore, fields, on_disk, next_uid, calls, touched, last, partial, loc, latest>>

\* ------------------------------------------- complete_indexing, sequences

\* complete_indexing(): about to block in self.queue.join()
CompleteCall(t) ==
    /\ CanCall(t)
    /\ calls' = calls + 1
    /\ loc' = [loc EXCEPT ![t] = [op |-> "complete", pending |-> Pending]]
    /\ pc' = [pc EXCEPT ![t] = "join"]
    /\ UNCHANGED <<state, write_index, read_index, queue, unfinished, write_lock,
                   indexer_running, wpc, wdata, wcaps, backingstore, fields, on_disk,
                   next_uid,
                   touched, last, partial, latest>>

\* Queue.join() returns once every put has had its task_done
Join(t) ==
    /\ pc[t] = "join"
    /\ unfinished = 0
    /\ pc' = [pc EXCEPT ![t] = "flush_lock"]
    /\ UNCHANGED <<state, write_index, read_index, queue, unfinished, write_lock,
                   indexer_running, wpc, wdata, wcaps, backingstore, fields, on_disk,
                   next_uid, calls, touched, last, partial, loc, latest>>

\* the commands a caller may group for a document it sees: a delete, an update
\* of its fields with a file, an update without filestuff (enque's default),
\* and an operation value the indexer does not know. The document of a
\* command is built as index() builds it, without fulltext fields
Commands(d) ==
    LET doc == MkDoc(d.id, d.uid, d.vid, d.props)
    IN  { [uid |-> d.id, vid |-> None, doc |-> NoDoc, operation |-> DELETE,
           filestuff |-> NoFile],
          [uid |-> d.uid, vid |-> d.vid, doc |-> doc, operation |-> UPDATE,
           filestuff |-> "fb"],
          [uid |-> d.uid, vid |-> d.vid, doc |-> doc, operation |-> UPDATE,
           filestuff |-> NoFile],
          [uid |-> d.uid, vid |-> d.vid, doc |-> doc, operation |-> CREATE,
           filestuff |-> NoFile] }

\* the sequences handed to enqueSequence: no command, one command, or the
\* delete of a document followed by another command for it
Sequences ==
    {<<>>}
    \cup UNION {{<<a>> : a \in Commands(d)} : d \in read_index}
    \cup UNION {{<<a, b>> : a \in {c \in Commands(d) : c.operation = DELETE},
                            b \in Commands(d)} : d \in read_index}

\* the identities of the documents a sequence's commands name
CommandIds(commands) ==
    {IF commands[i].operation = DELETE THEN commands[i].uid ELSE commands[i].doc.id :
        i \in 1..Len(commands)}

\* enqueSequence(commands): self.queue.put(commands)
EnqueSequence(t, commands) ==
    /\ CanCall(t)
    /\ calls' = calls + 1
    /\ touched' = touched \cup CommandIds(commands)
    /\ partial' = partial \ CommandIds(commands)
    /\ queue' = Append(queue, [seq |-> TRUE, items |-> commands])
    /\ unfinished' = unfinished + 1
    /\ loc' = [loc EXCEPT ![t] = [op |-> "sequence"]]
    /\ pc' = [pc EXCEPT ![t] = "ret"]
    /\ latest' = {p \in latest : p[1] \notin CommandIds(commands)}
    /\ UNCHANGED <<state, write_index, read_index, write_lock, indexer_running,
                   wpc, wdata, wcaps, backingstore, fields, on_disk, next_uid,
                   last>>

\* ------------------------------------------------------- the indexer thread

\* indexThread: versions = self.versions, inplace = self.inplace
WorkerStart ==
    /\ wpc = "start"
    /\ wcaps' = backingstore \cap AllCaps
    /\ wpc' = "wait"
    /\ UNCHANGED <<state, write_index, read_index, queue, unfinished, write_lock,
                   indexer_running, wdata, backingstore, fields, on_disk, next_uid,
                   calls, touched, last, partial, pc, loc, latest>>

\* indexThread: data = q.get(True, 0.025) and the test of data[0]; an empty
\* sequence has no data[0], and that IndexError is outside the try that
\* catches: the thread ends. The thread is in q.get having seen the running
\* flag set: it takes an element also when the flag was cleared since
WorkerGet ==
    /\ wpc = "wait"
    /\ queue # <<>>
    /\ queue' = Tail(queue)
    /\ IF Head(queue).seq /\ Head(queue).items = <<>>
       THEN wpc' = "dead" /\ wdata' = <<>>
       ELSE wpc' = "have" /\ wdata' = Head(queue).items
    /\ UNCHANGED <<state, write_index, read_index, unfinished, write_lock,
                   indexer_running, wcaps, backingstore, fields, on_disk, next_uid,
                   calls, touched, last, partial, pc, loc, latest>>

\* indexThread: with self._write_lock
WorkerLock ==
    /\ wpc = "have"
    /\ LockFree
    /\ write_lock' = "worker"
    /\ wpc' = "work"
    /\ UNCHANGED <<state, write_index, read_index, queue, unfinished,
                   indexer_running, wdata, wcaps, backingstore, fields, on_disk,
                   next_uid, calls, touched, last, partial, pc, loc, latest>>

\* a loop that stops after its first read: only the first chunk is appended
WithFirstChunk(doc, f, len) ==
    [doc EXCEPT !.fulltext = doc.fulltext \o SubSeq(ReadChunks(f, len, 0), 1, 1)]

\* the document with the file's chunks appended as fulltext fields
WithFulltext(doc, f, len) ==
    [doc EXCEPT !.fulltext = doc.fulltext \o ReadChunks(f, len, 0)]

\* indexThread, one item: st is the write connection, the files and whether
\* an exception was raised
ProcessItem(st, item) ==
    CASE item.operation = DELETE ->
            [st EXCEPT !.idx = EngineDelete(st.idx, item.uid)]
      [] item.operation = UPDATE ->
            IF item.filestuff = NoFile
            THEN [st EXCEPT !.raised = TRUE]
            ELSE LET fp == converter(item.filestuff, st.disk)
                 IN  IF fp > 0
                     THEN [st EXCEPT
                             !.idx = EngineReplace(st.idx,
                                        WithFulltext(item.doc, item.filestuff, fp)),
                             !.disk = IF "versions" \in wcaps /\ "inplace" \notin wcaps
                                      THEN st.disk \ {item.filestuff}
                                      ELSE st.disk]
                     ELSE st
      [] OTHER -> st

\* indexThread: for item in data, up to the first item that raises
RECURSIVE ProcessBatch(_, _)
ProcessBatch(st, items) ==
    IF items = <<>> \/ st.raised THEN st
    ELSE ProcessBatch(ProcessItem(st, Head(items)), Tail(items))

\* the identities the operations callers are inside were called with
InCall ==
    {loc[t].uid : t \in {c \in Callers : loc[c].op \in {"index", "delete"}}}
    \cup {loc[t].doc.id : t \in {c \in Callers : loc[c].op \in {"index", "delete"}}}

\* indexThread: the batch under the lock; self.queue.task_done() when no item
\* raised; the lock released either way, a raised exception logged; then the
\* test of the running flag at the head of the loop
WorkerBatch ==
    LET st == ProcessBatch([idx |-> write_index, disk |-> on_disk, raised |-> FALSE],
                           wdata)
    IN  /\ wpc = "work"
        /\ write_index' = st.idx
        /\ on_disk' = st.disk
        /\ unfinished' = IF st.raised THEN unfinished ELSE unfinished - 1
        /\ write_lock' = "free"
        /\ wdata' = <<>>
        /\ wpc' = IF indexer_running THEN "wait" ELSE "done"
        /\ partial' = IF st.raised
                       THEN partial \cup (({d.id : d \in write_index}
                                              \ {d.id : d \in st.idx}) \ InCall)
                       ELSE partial
        /\ UNCHANGED <<state, read_index, queue, indexer_running, wcaps,
                       backingstore, fields, next_uid, calls, touched, last, pc, loc, latest>>

\* indexThread: q.get timed out (Empty, continue) or the loop is at its head,
\* and while self.indexer_running finds the flag cleared: the thread ends
WorkerExit ==
    /\ wpc = "wait"
    /\ ~indexer_running
    /\ wpc' = "done"
    /\ UNCHANGED <<state, write_index, read_index, queue, unfinished, write_lock,
                   indexer_running, wdata, wcaps, backingstore, fields, on_disk,
                   next_uid, calls, touched, last, partial, pc, loc, latest>>

\* ------------------------------------------------------------------ stop

\* a stopIndexer that never joins the queue
NeverDrains(force) == FALSE

\* a stopIndexer that joins the queue whatever force is
AlwaysDrains(force) == TRUE

\* stopIndexer: if not force: self.queue.join()
Drains(force) == ~force

\* stop(force) up to stopIndexer's first test: nothing to stop when the
\* indexer is not running, else the queue is joined unless force is set
StopCall(t, force) ==
    /\ CanCall(t)
    /\ calls' = calls + 1
    /\ loc' = [loc EXCEPT ![t] = [op |-> "stop", force |-> force,
                                  pending |-> Pending]]
    /\ pc' = [pc EXCEPT ![t] = IF ~indexer_running THEN "close"
                               ELSE IF Drains(force) THEN "stop_join"
                               ELSE "stop_flag"]
    /\ UNCHANGED <<state, write_index, read_index, queue, unfinished, write_lock,
                   indexer_running, wpc, wdata, wcaps, backingstore, fields, on_disk,
                   next_uid, touched, last, partial, latest>>

\* stopIndexer: self.queue.join() has returned
StopJoin(t) ==
    /\ pc[t] = "stop_join"
    /\ unfinished = 0
    /\ pc' = [pc EXCEPT ![t] = "stop_flag"]
    /\ UNCHANGED <<state, write_index, read_index, queue, unfinished, write_lock,
                   indexer_running, wpc, wdata, wcaps, backingstore, fields, on_disk,
                   next_uid, calls, touched, last, partial, loc, latest>>

\* stopIndexer: self.indexer_running = False
StopFlag(t) ==
    /\ pc[t] = "stop_flag"
    /\ indexer_running' = FALSE
    /\ pc' = [pc EXCEPT ![t] = "stop_wait"]
    /\ UNCHANGED <<state, write_index, read_index, queue, unfinished, write_lock,
                   wpc, wdata, wcaps, backingstore, fields, on_disk,
                   next_uid, calls, touched, last, partial, loc, latest>>

\* stopIndexer: self.indexer.join() returns once the thread has ended
StopWait(t) ==
    /\ pc[t] = "stop_wait"
    /\ wpc \in {"done", "dead"}
    /\ pc' = [pc EXCEPT ![t] = "close"]
    /\ UNCHANGED <<state, write_index, read_index, queue, unfinished, write_lock,
                   indexer_running, wpc, wdata, wcaps, backingstore, fields, on_disk,
                   next_uid, calls, touched, last, partial, loc, latest>>

\* stop: both connections closed and dropped
StopClose(t) ==
    /\ pc[t] = "close"
    /\ state' = "stopped"
    /\ pc' = [pc EXCEPT ![t] = "ret"]
    /\ UNCHANGED <<write_index, read_index, queue, unfinished, write_lock,
                   indexer_running, wpc, wdata, wcaps, backingstore, fields, on_disk,
                   next_uid, calls, touched, last, partial, loc, latest>>

\* ----------------------------------------------------------- _query_parse

\* the terms parse_query hands to _query_parse
QueryWords == {"foo", "foo*", "(foo"}

\* the flags parse_query builds: FLAG_LOVEHATE, with FLAG_PHRASE and
\* FLAG_WILDCARD added; {} is the flags=0 of _query_parse's signature
QueryFlags ==
    {{}, {"LOVEHATE"}, {"LOVEHATE", "PHRASE"}, {"LOVEHATE", "WILDCARD"},
     {"LOVEHATE", "PHRASE", "WILDCARD"}}

NoQuery == [text |-> "", flags |-> {}]

Unbound == "unbound"

\* the value of a name inside _query_parse's except block: its parameters
\* and locals, and the names the module binds; no other name has a value
Lookup(l, name) ==
    CASE name = "word" -> l.word
      [] name = "flags" -> l.flags
      [] OTHER -> Unbound

\* _query_parse(word, flags) up to its try; rejected holds the flags under
\* which the engine's parser rejects the word
QueryParseCall(t, word, flags, rejected) ==
    /\ CanCall(t)
    /\ calls' = calls + 1
    /\ loc' = [loc EXCEPT ![t] = [op |-> "query", word |-> word, flags |-> flags,
                                  rejected |-> rejected, tries |-> 0,
                                  result |-> NoQuery, err |-> "none"]]
    /\ pc' = [pc EXCEPT ![t] = "qp_try"]
    /\ UNCHANGED <<state, write_index, read_index, queue, unfinished, write_lock,
                   indexer_running, wpc, wdata, wcaps, backingstore, fields, on_disk,
                   next_uid, touched, last, partial, latest>>

\* _query_parse: return qp.parse_query(word, flags), or QueryParserError
QueryParseTry(t) ==
    /\ pc[t] = "qp_try"
    /\ IF loc[t].flags \in loc[t].rejected
       THEN /\ loc' = [loc EXCEPT ![t].tries = 1]
            /\ pc' = [pc EXCEPT ![t] = "qp_except"]
       ELSE /\ loc' = [loc EXCEPT ![t].tries = 1,
                                  ![t].result = [text |-> loc[t].word,
                                                 flags |-> loc[t].flags]]
            /\ pc' = [pc EXCEPT ![t] = "ret"]
    /\ UNCHANGED <<state, write_index, read_index, queue, unfinished, write_lock,
                   indexer_running, wpc, wdata, wcaps, backingstore, fields, on_disk,
                   next_uid, calls, touched, last, partial, latest>>

\* _query_parse, the except block: return qp.parse_query(string, 0); the
\* argument is evaluated before the call
QueryParseExcept(t) ==
    LET arg == Lookup(loc[t], "string")
    IN  /\ pc[t] = "qp_except"
        /\ loc' = IF arg = Unbound
                  THEN [loc EXCEPT ![t].err = "NameError"]
                  ELSE IF {} \in loc[t].rejected
                  THEN [loc EXCEPT ![t].tries = 2, ![t].err = "QueryParserError"]
                  ELSE [loc EXCEPT ![t].tries = 2,
                                   ![t].result = [text |-> arg, flags |-> {}]]
        /\ pc' = [pc EXCEPT ![t] = "ret"]
        /\ UNCHANGED <<state, write_index, read_index, queue, unfinished, write_lock,
                       indexer_running, wpc, wdata, wcaps, backingstore, fields,
                       on_disk, next_uid, calls, touched, last, partial, latest>>

\* ------------------------------------------------------------------ next

\* the identities callers pass to delete(), and the uids they pass to tag():
\* those of the documents in the index, and one the index never held
KnownIds == {d.id : d \in read_index \cup write_index}
KnownUids == {d.uid : d \in read_index \cup write_index}

\* the manager, its indexer thread and its callers, with the arguments the
\* callers pass
NextManager ==
    \/ Connect
    \/ WorkerStart
    \/ WorkerGet
    \/ WorkerLock
    \/ WorkerBatch
    \/ \E t \in Callers :
        \/ /\ calls < MaxCalls
           /\ \E uidIn \in {None} \cup {d.uid : d \in read_index},
                 vidIn \in (IF versions THEN VidInputs ELSE {None}),
                 filename \in {NoFile} \cup Files :
                    IndexCall(t, uidIn, vidIn, FALSE, filename)
        \/ calls < MaxCalls /\ IndexCall(t, None, None, TRUE, NoFile)
        \/ /\ calls < MaxCalls
           /\ \E uid \in KnownIds \cup {next_uid} : DeleteCall(t, uid)
        \/ /\ calls < MaxCalls
           /\ \E uid \in KnownUids \cup {next_uid}, expr \in TagExprs, rev \in Revs :
                    TagCall(t, uid, expr, rev)
        \/ calls < MaxCalls /\ CompleteCall(t)
        \/ calls < MaxCalls /\ \E commands \in Sequences : EnqueSequence(t, commands)
        \/ SchemaLock(t)
        \/ SchemaApply(t)
        \/ EnqueLock(t)
        \/ EnqueWrite(t)
        \/ FlushLock(t)
        \/ FlushCommit(t)
        \/ QueuePut(t)
        \/ TagLock(t)
        \/ TagWrite(t)
        \/ Join(t)
        \/ Return(t)

\* the same with a backing store that binds itself to the manager
Next ==
    \/ NextManager
    \/ \E caps \in CapSets : BindTo(caps)

\* callers that index properties only, tag and drain: nothing is ever queued,
\* and the indexer thread only polls
NextTag ==
    \/ Connect
    \/ WorkerStart
    \/ BindTo({"versions"})
    \/ \E t \in Callers :
        \/ /\ calls < MaxTagCalls
           /\ \E uidIn \in {None} \cup {d.uid : d \in read_index} :
                    IndexCall(t, uidIn, None, FALSE, NoFile)
        \/ /\ calls < MaxTagCalls
           /\ \E uid \in KnownUids \cup {next_uid}, expr \in TagExprs, rev \in Revs :
                    TagCall(t, uid, expr, rev)
        \/ calls < MaxTagCalls /\ CompleteCall(t)
        \/ EnqueLock(t)
        \/ EnqueWrite(t)
        \/ FlushLock(t)
        \/ FlushCommit(t)
        \/ TagLock(t)
        \/ TagWrite(t)
        \/ Join(t)
        \/ Return(t)

\* a caller that indexes items and new versions of them, with and without a
\* file, on a store bound before the first call or on no store
NextVer ==
    \/ Connect
    \/ WorkerStart
    \/ WorkerGet
    \/ WorkerLock
    \/ WorkerBatch
    \/ \E caps \in CapSets : BindTo(caps)
    \/ \E t \in Callers :
        \/ /\ calls < MaxCalls
           /\ \E filename \in {NoFile, "fb"} : IndexCall(t, None, None, FALSE, filename)
        \/ /\ calls < MaxCalls
           /\ \E uidIn \in {d.uid : d \in read_index}, filename \in {NoFile, "fb"} :
                    IndexCall(t, uidIn, 2, FALSE, filename)
        \/ EnqueLock(t)
        \/ EnqueWrite(t)
        \/ FlushLock(t)
        \/ FlushCommit(t)
        \/ QueuePut(t)
        \/ Return(t)

\* a caller whose queries reach _query_parse, with every answer the engine's
\* parser may give for the word under its flags and under no flags
NextQuery ==
    \/ Connect
    \/ WorkerStart
    \/ \E t \in Callers :
        \/ /\ calls < MaxCalls
           /\ \E word \in QueryWords, flags \in QueryFlags :
                \E rejected \in SUBSET {flags, {}} :
                    QueryParseCall(t, word, flags, rejected)
        \/ QueryParseTry(t)
        \/ QueryParseExcept(t)
        \/ Return(t)

\* callers that index files, group commands, drain and stop
CallerStop(t) ==
    \/ /\ calls < MaxCalls
       /\ \E filename \in {"fa", "fx"} : IndexCall(t, None, None, FALSE, filename)
    \/ calls < MaxCalls /\ \E commands \in Sequences : EnqueSequence(t, commands)
    \/ calls < MaxCalls /\ CompleteCall(t)
    \/ calls < MaxCalls /\ \E force \in BOOLEAN : StopCall(t, force)
    \/ EnqueLock(t)
    \/ EnqueWrite(t)
    \/ FlushLock(t)
    \/ FlushCommit(t)
    \/ QueuePut(t)
    \/ Join(t)
    \/ StopJoin(t)
    \/ StopFlag(t)
    \/ StopWait(t)
    \/ StopClose(t)
    \/ Return(t)

\* the indexer thread
Indexer ==
    \/ WorkerStart
    \/ WorkerGet
    \/ WorkerLock
    \/ WorkerBatch
    \/ WorkerExit

NextStop ==
    \/ Connect
    \/ Indexer
    \/ \E t \in Callers : CallerStop(t)

\* two callers and the indexer thread, on a manager no store is bound to
Spec == Init /\ [][NextManager]_vars

\* one caller and the indexer thread, with and without a backing store
SpecSeq == InitSeq /\ [][Next]_vars

\* one caller that indexes properties, tags and drains
SpecTag == InitSeq /\ [][NextTag]_vars

\* one caller that indexes versions of items, and the indexer thread
SpecVer == InitSeq /\ [][NextVer]_vars

\* one caller whose queries are parsed
SpecQuery == InitSeq /\ [][NextQuery]_vars

\* two callers that index files, group commands, drain and stop; the
\* scheduler lets every thread that can take a step take one
SpecStop ==
    /\ Init
    /\ [][NextStop]_vars
    /\ WF_vars(Indexer)
    /\ \A t \in Callers : WF_vars(CallerStop(t))

\* ---------------------------------------------------------------- claims

\* C1: when an index() call without a filename is at its return, the read
\* connection holds a document under the returned identity that carries the
\* registered properties the call supplied
C1_MetadataVisibleOnReturn ==
    \A t \in Callers :
        (pc[t] = "ret" /\ loc[t].op = "index" /\ loc[t].filestuff = NoFile)
            => \E d \in read_index : /\ d.id = loc[t].doc.id
                                     /\ d.props = loc[t].doc.props

\* C2: when an index() call with a file that converts is at its return, the
\* read connection holds the call's document with the call's properties; and
\* when complete_indexing() is at its return, every item that was pending when
\* it was called, whose file converts and whose document no other operation
\* was called with, has its document on the read connection with the chunks
\* of its file as fulltext
C2_MetadataThenFulltext ==
    \A t \in Callers :
        /\ (pc[t] = "ret" /\ loc[t].op = "index" /\ loc[t].filestuff # NoFile
                /\ converter(loc[t].filestuff, Files) > 0)
            => \E d \in read_index : /\ d.id = loc[t].doc.id
                                     /\ d.props = loc[t].doc.props
        /\ (pc[t] = "ret" /\ loc[t].op = "complete")
            => \A item \in loc[t].pending :
                (/\ item.operation = UPDATE
                 /\ converter(item.filestuff, on_disk) > 0
                 /\ item.doc.id \notin touched)
                => \E d \in read_index :
                        /\ d.id = item.doc.id
                        /\ d.fulltext = ReadChunks(item.filestuff,
                                                   TextLen(item.filestuff), 0)

\* C3: a document's fulltext fields are none or the chunks of one file, in
\* order, ChunkSize long but for the last, up to the end of the file; and when
\* complete_indexing() is at its return, every item that was pending when it
\* was called, whose file converts and whose document no other operation was
\* called with, has its document on the read connection with the chunks of
\* its own file
C3_FulltextWholeAndOwn ==
    LET Whole(ft, f) ==
            /\ Len(ft) * ChunkSize >= TextLen(f)
            /\ (Len(ft) - 1) * ChunkSize < TextLen(f)
            /\ \A i \in 1..Len(ft) :
                ft[i] = [file |-> f, off |-> (i - 1) * ChunkSize,
                         len |-> Min(ChunkSize, TextLen(f) - (i - 1) * ChunkSize)]
    IN  /\ \A d \in read_index \cup write_index :
            d.fulltext = <<>> \/ \E f \in Files : Whole(d.fulltext, f)
        /\ \A t \in Callers :
            (pc[t] = "ret" /\ loc[t].op = "complete")
            => \A item \in loc[t].pending :
                (/\ item.operation = UPDATE
                 /\ converter(item.filestuff, on_disk) > 0
                 /\ item.doc.id \notin touched)
                => \E d \in read_index : /\ d.id = item.doc.id
                                         /\ d.props = item.doc.props
                                         /\ Whole(d.fulltext, item.filestuff)

\* C3 happens: complete_indexing() returns after two items of two documents,
\* one of them with a file of several chunks, were pending when it was called
C3_Witness ==
    \E t \in Callers :
        /\ pc[t] = "ret"
        /\ loc[t].op = "complete"
        /\ \E a, b \in loc[t].pending :
            /\ a.doc.id # b.doc.id
            /\ a.operation = UPDATE /\ b.operation = UPDATE
            /\ a.filestuff = "fa" /\ b.filestuff = "fb"
            /\ {a.doc.id, b.doc.id} \cap touched = {}
            /\ \E d \in read_index : d.id = a.doc.id /\ Len(d.fulltext) = 3
            /\ \E d \in read_index : d.id = b.doc.id /\ Len(d.fulltext) = 1

\* C4: when delete(uid) is at its return, the read connection holds no
\* document under uid, and no delete sits on the queue as an item of its own
C4_DeletedOnReturn ==
    /\ \A t \in Callers :
        (pc[t] = "ret" /\ loc[t].op = "delete")
            => EngineGet(read_index, loc[t].uid) = {}
    /\ \A i \in 1..Len(queue) :
        ~queue[i].seq => queue[i].items[1].operation # DELETE

\* C5: when tag(uid, "-alpha") is at its return and the caller's operation
\* before it was tag(uid, "alpha beta") on a chain without tags, with no work
\* pending, every document of uid on the write connection has the tag set
\* {beta}
C5_AlphaBetaMinusAlpha ==
    \A t \in Callers :
        (/\ pc[t] = "ret"
         /\ loc[t].op = "tag"
         /\ loc[t].expr = MinusAlpha
         /\ loc[t].rev = None
         /\ last[t] = loc[t].uid)
        => \A d \in write_index : d.uid = loc[t].uid => d.tags = {"beta"}

\* C6: when tag(uid, "-") is at its return, no document of uid on the write
\* connection has a tag
C6_MinusClearsAll ==
    \A t \in Callers :
        (/\ pc[t] = "ret"
         /\ loc[t].op = "tag"
         /\ loc[t].expr = Minus
         /\ loc[t].rev = None
         /\ loc[t].err = "none")
        => /\ \A d \in write_index : d.uid = loc[t].uid => d.tags = {}
           /\ \A c \in loc[t].chain : \E d \in write_index : d.id = c.id

\* C6 happens: tag(uid, "-") returns on a chain of two versions that both
\* had tags when the call read them
C6_Witness ==
    \E t \in Callers :
        /\ pc[t] = "ret"
        /\ loc[t].op = "tag"
        /\ loc[t].expr = Minus
        /\ loc[t].rev = None
        /\ Cardinality(loc[t].chain) = 2
        /\ \A c \in loc[t].chain : c.tags # {}

\* C7: a tag() call that finds no document for its uid raises KeyError and is
\* at its return, and the step that starts it leaves the write connection,
\* the read connection and the queue as they were
C7_UnknownUidRaises ==
    [][\A t \in Callers :
        (loc'[t].op = "tag" /\ loc'[t].chain = {})
        => /\ loc'[t].err = "KeyError"
           /\ pc'[t] = "ret"
           /\ pc[t] = "idle" => UNCHANGED <<write_index, read_index, queue>>]_vars

\* C7 happens: tag() has raised KeyError on a manager that holds documents
C7_Witness ==
    \E t \in Callers :
        /\ pc[t] = "ret"
        /\ loc[t].op = "tag"
        /\ loc[t].err = "KeyError"
        /\ loc[t].chain = {}
        /\ write_index # {}
        /\ read_index = write_index

\* C8: a caller that adds, replaces or deletes, replaces tagged documents,
\* flushes or reapplies the schema holds the write lock, the indexer thread
\* holds it while it works on a batch, and at most one of them is at such a
\* place
C8_WritesUnderLock ==
    LET Writing == {t \in Callers :
                        pc[t] \in {"map_apply", "enq_write", "flush_commit", "tag_write"}}
    IN  /\ \A t \in Writing : write_lock = t
        /\ wpc = "work" => write_lock = "worker"
        /\ Cardinality(Writing) + (IF wpc = "work" THEN 1 ELSE 0) <= 1

\* C8 happens: one caller is inside its with block while the other caller and
\* the indexer thread, a batch in hand, wait for the lock
C8_Witness ==
    /\ pc["c1"] = "enq_write"
    /\ write_lock = "c1"
    /\ pc["c2"] = "tag_lock"
    /\ wpc = "have"

\* C9: the indexer thread holds the write lock while it works on a batch, and
\* a document that an abandoned batch removed, and no caller operation was
\* called with, is never missing from the read connection
C9_SequenceAtomic ==
    /\ wpc = "work" => write_lock = "worker"
    /\ \A id \in partial : EngineGet(read_index, id) # {}

\* C10: an index(), delete() or tag() call that writes reaches its return
\* from a flush of its own: from flush()'s commit, or from the queue put that
\* follows it
C10_FlushBeforeReturn ==
    [][\A t \in Callers :
        (/\ pc[t] # "ret"
         /\ pc'[t] = "ret"
         /\ loc'[t].op \in {"index", "delete", "tag"}
         /\ loc'[t].op = "tag" => loc'[t].err = "none")
        => pc[t] \in {"flush_commit", "put"}]_vars

\* C11: when the indexer thread has finished a batch, the read connection
\* shows what the write connection holds: the thread has flushed
C11_WorkerFlushes ==
    [][(wpc = "work" /\ wpc' # "work") => read_index' = write_index']_vars

\* C12: a stop(force=False) clears the running flag only when every element
\* that was queued when it was called has been worked off, and returns only
\* when the indexer thread has ended
C12_GracefulStopDrains ==
    [][\A t \in Callers :
        (loc'[t].op = "stop" /\ ~loc'[t].force) =>
            /\ (pc[t] = "stop_flag" /\ pc'[t] = "stop_wait")
                    => loc[t].pending \cap Pending = {}
            /\ (pc[t] # "ret" /\ pc'[t] = "ret")
                    => wpc \in {"done", "dead"}]_vars

\* a stop(force=True) is in progress in caller t
ForcedStop(t) == loc[t].op = "stop" /\ loc[t].force /\ pc[t] # "ret"

\* C13: a stop(force=True) never joins the queue and comes to its return; the
\* indexer thread ends with the batch it finishes once the flag is cleared,
\* and an ended thread takes nothing more off the queue
C13_ForcedStopReturns ==
    /\ [][\A t \in Callers :
            (loc'[t].op = "stop" /\ loc'[t].force) => pc'[t] # "stop_join"]_vars
    /\ [][(~indexer_running /\ wpc = "work" /\ wpc' # "work")
            => wpc' = "done"]_vars
    /\ [][wpc = "done" =>
            /\ wpc' = "done"
            /\ Len(queue') >= Len(queue)
            /\ SubSeq(queue', 1, Len(queue)) = queue]_vars
    /\ \A t \in Callers : ForcedStop(t) ~> (pc[t] = "ret")

\* a stop(force=True) has returned, the indexer thread has ended, and a work
\* item is still on the queue
C13_Witness ==
    \E t \in Callers :
        /\ pc[t] = "ret"
        /\ loc[t].op = "stop"
        /\ loc[t].force
        /\ wpc = "done"
        /\ Pending # {}

\* C14: whatever element the indexer thread takes off the queue, the thread
\* does not end while the running flag is set
C14_WorkerSurvives ==
    indexer_running => wpc # "dead"

\* C15: a caller waiting in queue.join(), in complete_indexing() or in a
\* graceful stop, is released in the end, unless the indexer thread has ended
C15_DrainCompletes ==
    \A t \in Callers :
        (pc[t] \in {"join", "stop_join"})
            ~> (pc[t] \notin {"join", "stop_join"} \/ wpc \in {"dead", "done"})

\* C16: an index(), delete() or tag() call in progress never stands before
\* the write lock while the indexer thread holds it: the call can go on
\* without a step of the thread
C16_CallersNeverWait ==
    \A t \in Callers :
        (/\ loc[t].op \in {"index", "delete", "tag"}
         /\ pc[t] \in {"map_lock", "enq_lock", "flush_lock", "tag_lock"})
        => write_lock # "worker"

\* an index() call on a store with versions returns from indexing vid 2 of
\* an item whose vid 1 was indexed before
SecondVersion(t) ==
    /\ pc[t] = "ret"
    /\ loc[t].op = "index"
    /\ versions
    /\ loc[t].operation = UPDATE
    /\ loc[t].vid = 2

\* C17: on a store with versions an index() call gives its document an
\* identity no document has, and when the second version of an item has been
\* indexed get_by_uid_prop(uid) returns both versions, the higher vid first,
\* and get_by_uid_prop(uid, "tip") only the higher; on a store without
\* versions the document's identity is the uid
C17_VersionIdentity ==
    /\ [][\A t \in Callers :
            (pc[t] = "idle" /\ loc'[t].op = "index") =>
                IF versions THEN loc'[t].doc.id \notin KnownIds
                ELSE loc'[t].doc.id = loc'[t].uid]_vars
    /\ [](\A t \in Callers :
            SecondVersion(t) =>
                LET chain == SortByVidDesc(get_by_uid_prop(loc[t].uid, None))
                IN  /\ Len(chain) >= 2
                    /\ chain[1].vid = 2
                    /\ chain[Len(chain)].vid = 1
                    /\ \E i \in 1..Len(chain) : chain[i].id = loc[t].doc.id
                    /\ \A i \in 1..Len(chain) : chain[i].uid = loc[t].uid
                    /\ \A i \in 1..(Len(chain) - 1) : chain[i].vid >= chain[i + 1].vid
                    /\ get_by_uid_tip(loc[t].uid) # {}
                    /\ \A d \in get_by_uid_tip(loc[t].uid) : d.vid = 2)

\* the second version of an item has been indexed, and the chain of its uid
\* holds two documents
C17_Witness ==
    \E t \in Callers :
        /\ SecondVersion(t)
        /\ Cardinality(get_by_uid_prop(loc[t].uid, None)) = 2
        /\ Cardinality(get_by_uid_tip(loc[t].uid)) = 1

\* C18: when a tag() call is at its return, "-alpha" has left the tag set of
\* every document of the chain that did not hold alpha as it was, and "alpha"
\* has added alpha to the tag set of every document of the chain
C18_MinusOnlyRemoves ==
    \A t \in Callers :
        (pc[t] = "ret" /\ loc[t].op = "tag" /\ loc[t].err = "none") =>
            \A d \in loc[t].chain : \A r \in write_index :
                r.id = d.id =>
                    /\ (loc[t].expr = MinusAlpha /\ "alpha" \notin d.tags)
                            => r.tags = d.tags
                    /\ loc[t].expr = Alpha => r.tags = d.tags \cup {"alpha"}

\* C19: when the indexer thread finishes the batch of one file item whose
\* file is there, the file is gone afterwards exactly when it converted and
\* the store bound to the manager has versions and is not in place
C19_FileOwnership ==
    [][(/\ wpc = "work"
        /\ wpc' # "work"
        /\ Len(wdata) = 1
        /\ wdata[1].operation = UPDATE
        /\ wdata[1].filestuff \in on_disk)
       => (wdata[1].filestuff \notin on_disk'
            <=> (/\ versions
                 /\ ~inplace
                 /\ converter(wdata[1].filestuff, on_disk) > 0))]_vars

\* C20: when _query_parse is at its return and the engine's parser rejected
\* the word under the given flags, the parser was called a second time, and
\* the call returns the parse of the same word under no flags, or raises the
\* parse error when the engine rejects the word under no flags too
C20_RetryOnce ==
    \A t \in Callers :
        (/\ pc[t] = "ret"
         /\ loc[t].op = "query"
         /\ loc[t].flags \in loc[t].rejected)
        => /\ loc[t].tries = 2
           /\ IF {} \in loc[t].rejected
              THEN loc[t].err = "QueryParserError"
              ELSE /\ loc[t].err = "none"
                   /\ loc[t].result = [text |-> loc[t].word, flags |-> {}]

\* C21: on a store without versions, when complete_indexing() is at its
\* return, the document the read connection holds for an identity carries the
\* title of the latest index() call for that identity
C21_NoLostUpdate ==
    \A t \in Callers :
        (pc[t] = "ret" /\ loc[t].op = "complete" /\ ~versions) =>
            \A p \in latest : \A d \in read_index :
                (p[2] # None /\ d.id = p[1]) => <<"title", p[2]>> \in d.props

\* C22: a document that a delete() removed from the read connection, with no
\* index() call for its identity since, does not come back to the read
\* connection
C22_DeleteNotUndone ==
    [][\A p \in latest \cap latest' :
        (p[2] = None /\ EngineGet(read_index, p[1]) = {})
            => EngineGet(read_index', p[1]) = {}]_vars

\* C23: when two tag() calls on one uid are at their return, one that adds
\* alpha and one that adds beta, both begun on documents without tags and
\* with no work pending, every document of the uid on the write connection
\* (what a flush makes visible) holds both tags
C23_BothTagsKept ==
    \A t, u \in Callers :
        (/\ pc[t] = "ret" /\ pc[u] = "ret"
         /\ loc[t].op = "tag" /\ loc[u].op = "tag"
         /\ loc[t].err = "none" /\ loc[u].err = "none"
         /\ loc[t].clean /\ loc[u].clean
         /\ loc[t].uid = loc[u].uid
         /\ loc[t].expr = Alpha /\ loc[u].expr = Beta0)
        => \A d \in write_index :
                d.uid = loc[t].uid => {"alpha", "beta"} \subseteq d.tags

====
